---- MODULE Spec2Model ----
(***************************************************************************)
(* A model of AntiZalipBot (src/bot.py): the event ledger, the usage gate  *)
(* in front of the generation backend (ai_reply), the nightly digest loop, *)
(* the per-user timer engine and the tracked-message slot (send_clean).     *)
(*                                                                         *)
(* Every coroutine is a process with a program counter; one action is the  *)
(* code that runs between two awaits (asyncio runs it without preemption). *)
(* Amounts of money are integers, in micro-dollars.                        *)
(***************************************************************************)
EXTENDS Integers, Sequences, FiniteSets, TLC

\* ------------------------------------------------------------------ bounds
\* ai_reply invocations the gate model follows (handlers run concurrently).
MaxReq == 2
\* Last calendar day the clock reaches (days are 0..MaxDay).
MaxDay == 1

\* ------------------------------------------------- configuration (env)
\* MAX_AI_CALLS_PER_DAY (bot.py:52), here configured to 1 call a day.
MAX_AI_CALLS_PER_DAY == 1
\* MAX_DAILY_SPEND (bot.py:53) in micro-dollars, here configured to $0.00024:
\* one chat request lands exactly on it.
MAX_DAILY_SPEND == 240
\* max_tokens of the chat handlers (bot.py:790, 804) and of the digest (bot.py:817).
CHAT_MAX_TOKENS == 400
DIGEST_MAX_TOKENS == 280
HoursPerDay == 24

Users == {1, 2}
None == 0

VARIABLES
    events,   \* the events table: the bag of its rows (row -> how many)
    now,      \* wall clock, in hours since day 0, 00:00 (server local time)
    reqs,     \* the ai_reply invocations: reqs[r] is invocation r's frame
    tzoff,    \* hours DIGEST_TZ is ahead of the server's local time
    users,    \* the users table: user_id -> last_digest_date (NoDate: NULL)
    dg,       \* the frame of nightly_digest_loop
    attempts, \* history: bot.send_message calls of the digest, per <<uid, date>>
    active_timers,  \* dict uid -> timer task
    timer_meta,     \* dict uid -> minutes (the `until` of the pair is never read)
    tasks,    \* the schedule_timer tasks created so far: tasks[t] is task t's frame
    calls,    \* the running start_timer / cancel_user_timer invocations
    covered,  \* history: the tasks still running whose start_timer had logged
              \* timer_start when a cancel_user_timer of their actor began
              \* that has since returned
    LAST_BOT_MSG,   \* dict (chat_id, user_id) -> <<message id, tag>>
    msgs,     \* the bot messages sent so far: msgs[m] is message m (its key,
              \* the tag it was sent with, whether it is still in the chat)
    sends,    \* the running send_clean invocations
    cards,    \* the timer tasks whose starting handler has sent its "timer is
              \* on" card, or given up sending it
    pomo,     \* the frame of schedule_pomodoro once its work session is started
    errs      \* history: the digest passes that an exception ended (the actor
              \* in work, the pass's date, whether it was still the digest
              \* hour of that date, the actors the pass had still to serve)

gateVars == <<reqs>>
clockVars == <<now, tzoff>>
digestVars == <<users, dg, attempts>>
timerVars == <<active_timers, timer_meta, tasks, calls, covered>>
slotVars == <<LAST_BOT_MSG, msgs, sends>>
handlerVars == <<cards>>
errVars == <<errs>>
pomoVars == <<pomo>>
vars == <<events, now, reqs, tzoff, users, dg, attempts,
          active_timers, timer_meta, tasks, calls, covered,
          LAST_BOT_MSG, msgs, sends, cards, pomo, errs>>
\* What the usage gate, the clock, the digest loop and the timers leave alone.
offGate == <<clockVars, digestVars, timerVars, slotVars, handlerVars, errVars, pomoVars>>
offClock == <<users, attempts, timerVars, slotVars, handlerVars, errVars, pomoVars>>
offDigest == <<clockVars, timerVars, slotVars, handlerVars, errVars, pomoVars>>
offTimer == <<reqs, clockVars, digestVars, slotVars, handlerVars, errVars, pomoVars>>
offSlot == <<events, reqs, clockVars, digestVars, timerVars, handlerVars, errVars, pomoVars>>
offHandler == <<reqs, clockVars, digestVars, errVars, pomoVars>>

\* CURRENT_DATE / date.today()
Today == now \div HoursPerDay

\* ------------------------------------------------------------------ ledger
\* Row of the events table. created_at is kept as its date (created_at::date is
\* all the queries read). "by" is not a column: it names the timer task a timer
\* row is about (None on the rows of the usage gate).
Row(uid, event, value, by) ==
    [uid |-> uid, event |-> event, value |-> value, day |-> Today, by |-> by]

\* INSERT INTO events: one more copy of the row.
Insert(ev, row) ==
    IF row \in DOMAIN ev THEN [ev EXCEPT ![row] = @ + 1]
    ELSE [x \in DOMAIN ev \cup {row} |-> IF x = row THEN 1 ELSE ev[x]]

\* log_event: INSERT INTO events(user_id,event,value)
log_event(ev, uid, event, value, by) == Insert(ev, Row(uid, event, value, by))

\* add_spend: INSERT INTO events(user_id,event,value) VALUES(0,'ai_usd',$1)
add_spend(ev, amount) == Insert(ev, Row(0, "ai_usd", amount, None))

\* SELECT COUNT(*) / SUM(value) over the rows of a set.
RECURSIVE CountRows(_, _)
CountRows(ev, rows) ==
    IF rows = {} THEN 0
    ELSE LET x == CHOOSE y \in rows : TRUE
         IN ev[x] + CountRows(ev, rows \ {x})

RECURSIVE SumRows(_, _)
SumRows(ev, rows) ==
    IF rows = {} THEN 0
    ELSE LET x == CHOOSE y \in rows : TRUE
         IN ev[x] * x.value + SumRows(ev, rows \ {x})

\* ai_calls_today: COUNT(*) WHERE user_id=$1 AND event='ai_call' AND created_at::date=CURRENT_DATE
CallsOn(ev, uid, day) ==
    CountRows(ev, {x \in DOMAIN ev : x.uid = uid /\ x.event = "ai_call" /\ x.day = day})

\* Mutant of ai_calls_today: the rows of every date are counted.
ai_calls_today_AllTime(ev, uid) ==
    CountRows(ev, {x \in DOMAIN ev : x.uid = uid /\ x.event = "ai_call"})

ai_calls_today(ev, uid) == CallsOn(ev, uid, Today)

\* total_spend_today: COALESCE(SUM(value),0) WHERE event='ai_usd' AND created_at::date=CURRENT_DATE
SpendOn(ev, day) ==
    SumRows(ev, {x \in DOMAIN ev : x.event = "ai_usd" /\ x.day = day})

total_spend_today(ev) == SpendOn(ev, Today)

\* ---------------------------------------------------------------- usage gate
\* est_cost = (max_tokens / 1000.0) * 0.0006 dollars = max_tokens * 0.6 micro-dollars
est_cost(max_tokens) == (max_tokens * 6) \div 10

\* Mutant of can_use_ai: the cap compared with <= (one call too many).
can_use_ai_OffByOne(ev, uid) == ai_calls_today(ev, uid) <= MAX_AI_CALLS_PER_DAY

can_use_ai(ev, uid) == ai_calls_today(ev, uid) < MAX_AI_CALLS_PER_DAY

\* Mutant of can_spend: a request landing exactly on the ceiling is rejected.
can_spend_Strict(ev, amount) == total_spend_today(ev) + amount < MAX_DAILY_SPEND

can_spend(ev, amount) == total_spend_today(ev) + amount <= MAX_DAILY_SPEND

\* What ai_generate returns: the backend's text, "" (empty content), or None
\* (the backend raised; the error is logged and swallowed).
BackendOutcomes == {"text", "empty", "None"}

\* The strings ai_reply returns: the two block messages, the fallback of
\* `text or "..."`, and the backend's text.
ResultOf(text) == IF text = "text" THEN "TEXT" ELSE "FALLBACK_EMPTY"

IdleReq ==
    [pc |-> "idle", uid |-> None, max_tokens |-> 0, text |-> "unset",
     res |-> "unset", capHit |-> FALSE, ceilHit |-> FALSE, logged |-> <<>>]

Reqs == 1..MaxReq

\* ai_reply is entered: `if not await can_use_ai(uid)`.
\* capHit records whether the actor had reached the cap when the count was read.
\* The digest loop is one coroutine: its invocations never overlap.
AiReplyCall(r, uid, max_tokens) ==
    /\ reqs[r].pc = "idle"
    /\ \A q \in Reqs : q < r => reqs[q].pc # "idle"
    /\ max_tokens = DIGEST_MAX_TOKENS =>
            \A q \in Reqs : reqs[q].max_tokens # DIGEST_MAX_TOKENS
    /\ reqs' = [reqs EXCEPT ![r] =
            [IdleReq EXCEPT
                !.pc = IF can_use_ai(events, uid) THEN "can_spend" ELSE "block",
                !.res = IF can_use_ai(events, uid) THEN "unset" ELSE "FALLBACK_CAP",
                !.uid = uid,
                !.max_tokens = max_tokens,
                !.capHit = (CallsOn(events, uid, Today) >= MAX_AI_CALLS_PER_DAY)]]
    /\ UNCHANGED <<events, offGate>>

\* `if not await can_spend(est_cost)`
AiCanSpend(r) ==
    /\ reqs[r].pc = "can_spend"
    /\ LET est == est_cost(reqs[r].max_tokens)
           ok == can_spend(events, est)
       IN reqs' = [reqs EXCEPT
            ![r].pc = IF ok THEN "ai_generate" ELSE "block",
            ![r].res = IF ok THEN "unset" ELSE "FALLBACK_SPEND",
            ![r].ceilHit = (SpendOn(events, Today) + est > MAX_DAILY_SPEND)]
    /\ UNCHANGED <<events, offGate>>

\* The frame of an invocation that returned: its locals are gone, what is kept
\* is what it returned and what it did.
Returned(f, res) == [f EXCEPT !.pc = "done", !.res = res, !.max_tokens = 0]

\* Mutant of AiLogBlock: the rejected request is charged as well.
AiLogBlock_Charged(r) ==
    /\ reqs[r].pc = "block"
    /\ events' = add_spend(log_event(events, reqs[r].uid, "ai_block", 1, None),
                           est_cost(reqs[r].max_tokens))
    /\ reqs' = [reqs EXCEPT ![r] =
            Returned([@ EXCEPT !.logged = @ \o <<"ai_block", "ai_usd">>], reqs[r].res)]
    /\ UNCHANGED offGate

\* `await log_event(uid, "ai_block", 1); return "..."` of either rejection.
AiLogBlock(r) ==
    /\ reqs[r].pc = "block"
    /\ events' = log_event(events, reqs[r].uid, "ai_block", 1, None)
    /\ reqs' = [reqs EXCEPT ![r] =
            Returned([@ EXCEPT !.logged = Append(@, "ai_block")], reqs[r].res)]
    /\ UNCHANGED offGate

\* Mutant of AiGenerate: the backend's exception is not caught in ai_generate
\* and leaves ai_reply, which returns nothing.
AiGenerate_Raises(r, outcome) ==
    /\ reqs[r].pc = "ai_generate"
    /\ reqs' = [reqs EXCEPT ![r] =
            IF outcome = "None"
            THEN Returned([@ EXCEPT !.text = outcome], "unset")
            ELSE [@ EXCEPT !.pc = "log_call", !.text = outcome]]
    /\ UNCHANGED <<events, offGate>>

\* `text = await ai_generate(...)`
AiGenerate(r, outcome) ==
    /\ reqs[r].pc = "ai_generate"
    /\ reqs' = [reqs EXCEPT ![r].pc = "log_call", ![r].text = outcome]
    /\ UNCHANGED <<events, offGate>>

\* `await log_event(uid, "ai_call", 1)`
AiLogCall(r) ==
    /\ reqs[r].pc = "log_call"
    /\ events' = log_event(events, reqs[r].uid, "ai_call", 1, None)
    /\ reqs' = [reqs EXCEPT ![r].pc = "add_spend", ![r].logged = Append(@, "ai_call")]
    /\ UNCHANGED offGate

\* `await add_spend(est_cost); return text or "..."`
AiAddSpend(r) ==
    /\ reqs[r].pc = "add_spend"
    /\ events' = add_spend(events, est_cost(reqs[r].max_tokens))
    /\ reqs' = [reqs EXCEPT ![r] =
            Returned([@ EXCEPT !.logged = Append(@, "ai_usd")], ResultOf(reqs[r].text))]
    /\ UNCHANGED offGate

\* `return ...` of ai_reply has reached the handler that awaited it: the
\* invocation's frame is gone.
AiReturn(r) ==
    /\ reqs[r].pc = "done"
    /\ reqs' = [reqs EXCEPT ![r] = IdleReq]
    /\ UNCHANGED <<events, offGate>>

\* Rows the events table holds when the last ai_reply of a run is entered.
MaxRows == 4

\* The cap is counted per actor and the ceiling over all actors: the gate is
\* followed over the days for one actor, who reaches both.
QuotaUsers == {1}

\* A chat handler calls ai_reply (bot.py:790, 804).
ChatAiReply(r, uid) ==
    /\ CountRows(events, DOMAIN events) < MaxRows
    /\ AiReplyCall(r, uid, CHAT_MAX_TOKENS)

\* Midnight: the calendar date changes.
NewDay ==
    /\ Today < MaxDay
    /\ now' = (Today + 1) * HoursPerDay
    /\ UNCHANGED <<events, reqs, tzoff, dg, offClock>>

\* ------------------------------------------------------- usage gate: claims
Days == 0..MaxDay

InLog(r, event) == \E i \in DOMAIN reqs[r].logged : reqs[r].logged[i] = event

\* Rows of one kind in the table, and in the invocations' own records.
RowsOf(event) == CountRows(events, {x \in DOMAIN events : x.event = event})
LoggedOf(event) == Cardinality({r \in Reqs : InLog(r, event)})

Rejected(r) == reqs[r].res \in {"FALLBACK_CAP", "FALLBACK_SPEND"}

\* C3: for every actor and day, the ai_call rows of that actor on that day
\* never exceed MAX_AI_CALLS_PER_DAY.
C3_CallsWithinCap ==
    \A u \in Users, d \in Days : CallsOn(events, u, d) <= MAX_AI_CALLS_PER_DAY

\* C4: for every day, the sum of the ai_usd rows of that day never exceeds
\* MAX_DAILY_SPEND.
C4_SpendWithinCeiling ==
    \A d \in Days : SpendOn(events, d) <= MAX_DAILY_SPEND

\* C5: an ai_reply entered when the actor already has MAX_AI_CALLS_PER_DAY
\* ai_call rows today returns the cap fallback, inserts exactly one ai_block row
\* for that actor and nothing else, and never reaches ai_generate.
C5_CapBlocks ==
    \A r \in Reqs : reqs[r].capHit =>
        /\ reqs[r].pc \in {"block", "done"}
        /\ reqs[r].res = "FALLBACK_CAP"
        /\ reqs[r].text = "unset"
        /\ reqs[r].pc = "done" =>
            /\ reqs[r].logged = <<"ai_block">>
            /\ \E x \in DOMAIN events : x.uid = reqs[r].uid /\ x.event = "ai_block"

C5_Witness ==
    \E r \in Reqs : reqs[r].pc = "done" /\ reqs[r].capHit /\ reqs[r].res = "FALLBACK_CAP"

\* C6: an invocation whose backend call failed or came back empty returns the
\* fallback and inserts no ai_usd row.
C6_NoChargeOnFailure ==
    \A r \in Reqs : reqs[r].text \in {"empty", "None"} =>
        /\ ~InLog(r, "ai_usd")
        /\ reqs[r].pc = "done" => reqs[r].res = "FALLBACK_EMPTY"

\* C7: the spend check rejects exactly when spend_today + est_cost is strictly
\* above MAX_DAILY_SPEND; a rejected invocation inserts one ai_block row and
\* never reaches ai_generate.
C7_CeilingExact ==
    \A r \in Reqs :
        /\ (reqs[r].res = "FALLBACK_SPEND") <=> reqs[r].ceilHit
        /\ reqs[r].ceilHit =>
            /\ reqs[r].pc \in {"block", "done"}
            /\ reqs[r].text = "unset"
            /\ reqs[r].pc = "done" => reqs[r].logged = <<"ai_block">>

\* One invocation was admitted landing exactly on the ceiling, and another
\* actor's invocation was then rejected by the spend check.
C7_Witness ==
    \E r, q \in Reqs :
        /\ reqs[r].pc = "done" /\ reqs[r].res = "TEXT"
        /\ SpendOn(events, Today) = MAX_DAILY_SPEND
        /\ reqs[q].pc = "done" /\ reqs[q].ceilHit /\ reqs[q].res = "FALLBACK_SPEND"
        /\ reqs[q].uid # reqs[r].uid

\* C8: a rejected invocation inserts an ai_block row and nothing else: the
\* ai_call and ai_usd rows of the table are those of admitted invocations.
C8_RejectedOnlyBlock ==
    /\ \A r \in Reqs : Rejected(r) =>
        \/ reqs[r].pc = "block" /\ reqs[r].logged = <<>>
        \/ reqs[r].pc = "done" /\ reqs[r].logged = <<"ai_block">>
    /\ \A e \in {"ai_call", "ai_usd", "ai_block"} : RowsOf(e) = LoggedOf(e)
    /\ \A r \in Reqs : InLog(r, "ai_call") \/ InLog(r, "ai_usd") => ~Rejected(r)

\* An admitted invocation returned, then a rejected one: the table holds the
\* rows of the first and one ai_block row.
C8_Witness ==
    \E r, q \in Reqs :
        /\ reqs[r].pc = "done" /\ Rejected(r)
        /\ reqs[q].pc = "done" /\ reqs[q].logged = <<"ai_call", "ai_usd">>
        /\ RowsOf("ai_call") = 1 /\ RowsOf("ai_usd") = 1 /\ RowsOf("ai_block") = 1

\* The strings ai_reply returns (each of them non-empty): the two block
\* messages, the fallback of `text or "..."` and the backend's stripped text.
Replies == {"FALLBACK_CAP", "FALLBACK_SPEND", "FALLBACK_EMPTY", "TEXT"}

\* C22: every ai_reply invocation that is over has returned a non-empty
\* string: the cap message when the cap was hit, the ceiling message when the
\* spend check rejected, the static fallback when the backend raised or
\* returned nothing, and the backend's text only when there was one; a backend
\* outcome never ends the invocation without a result.
C22_AlwaysReplies ==
    \A r \in Reqs :
        /\ reqs[r].pc = "done" =>
            /\ reqs[r].res \in Replies
            /\ reqs[r].capHit => reqs[r].res = "FALLBACK_CAP"
            /\ reqs[r].ceilHit => reqs[r].res = "FALLBACK_SPEND"
            /\ reqs[r].text \in {"empty", "None"} => reqs[r].res = "FALLBACK_EMPTY"
            /\ reqs[r].res = "TEXT" => reqs[r].text = "text"
        /\ reqs[r].text # "unset" => reqs[r].pc \in {"log_call", "add_spend", "done"}

\* One invocation returned the fallback after the backend raised, another
\* after the backend returned an empty text.
C22_Witness ==
    \E r, q \in Reqs :
        /\ reqs[r].pc = "done" /\ reqs[r].text = "None"
        /\ reqs[r].res = "FALLBACK_EMPTY"
        /\ reqs[q].pc = "done" /\ reqs[q].text = "empty"
        /\ reqs[q].res = "FALLBACK_EMPTY"

\* The step is the entry of invocation r into ai_reply.
AiEnters(r) == reqs[r].pc = "idle" /\ reqs'[r].pc # "idle"

\* C23: the ledger only grows (no row is deleted or rewritten), a change of
\* date changes no row and leaves every actor's call count and the spend of
\* the new date at zero, the cap check admits exactly when the actor's ai_call
\* rows of the current date are below the cap and the spend check exactly when
\* the ai_usd rows of the current date leave room: rows of earlier dates,
\* however many, never block.
C23_ResetByDate ==
    [][/\ \A x \in DOMAIN events : x \in DOMAIN events' /\ events'[x] >= events[x]
       /\ now' \div HoursPerDay # Today
          => /\ events' = events
             /\ SpendOn(events', now' \div HoursPerDay) = 0
             /\ \A u \in QuotaUsers : CallsOn(events', u, now' \div HoursPerDay) = 0
       /\ \A r \in Reqs :
            /\ AiEnters(r)
               => (reqs'[r].pc = "can_spend"
                     <=> CallsOn(events, reqs'[r].uid, Today) < MAX_AI_CALLS_PER_DAY)
            /\ (reqs[r].pc = "can_spend" /\ reqs'[r].pc # "can_spend")
               => (reqs'[r].pc = "ai_generate"
                     <=> SpendOn(events, Today) + est_cost(reqs[r].max_tokens)
                            <= MAX_DAILY_SPEND)]_vars

\* An actor that reached the cap and was rejected on one date (the day's spend
\* was at the ceiling as well) has been admitted on the next date, with the
\* rows of the earlier date still in the ledger.
C23_Witness ==
    \E r \in Reqs :
        /\ Today > 0
        /\ reqs[r].pc = "done" /\ reqs[r].res = "TEXT"
        /\ reqs[r].logged = <<"ai_call", "ai_usd">>
        /\ CallsOn(events, reqs[r].uid, Today - 1) = MAX_AI_CALLS_PER_DAY
        /\ SpendOn(events, Today - 1) = MAX_DAILY_SPEND
        /\ \E x \in DOMAIN events :
                x.uid = reqs[r].uid /\ x.event = "ai_block" /\ x.day = Today - 1
        /\ CallsOn(events, reqs[r].uid, Today) = 1

\* ------------------------------------------------------------ nightly digest
\* DIGEST_HOUR (bot.py:50)
DIGEST_HOUR == 22
\* Times DIGEST_TZ falls back an hour (end of daylight saving) in a run.
MaxDst == 1

NoDate == -1

\* datetime.now(tz).hour
TzHour == (now + tzoff) % HoursPerDay

\* The invocation slot of the digest's ai_reply.
DigestReq == 1

RECURSIVE Perms(_)
Perms(S) ==
    IF S = {} THEN {<<>>}
    ELSE UNION {{<<x>> \o p : p \in Perms(S \ {x})} : x \in S}

\* SELECT user_id, last_digest_date FROM users (no ORDER BY: any order)
FetchRows(order) ==
    [k \in DOMAIN order |-> [user_id |-> order[k], last_digest_date |-> users[order[k]]]]

\* Mutant of NextRow: `if last == today: continue` is missing.
NextRow_NoSkip(rows, i, today) ==
    IF i + 1 <= Len(rows) THEN i + 1 ELSE 0

\* `for r in rows: ...; if last == today: continue`: the next row after row i
\* that is not skipped, 0 when the loop is over.
NextRow(rows, i, today) ==
    LET ks == {k \in DOMAIN rows : k > i /\ rows[k].last_digest_date # today}
    IN IF ks = {} THEN 0 ELSE CHOOSE k \in ks : \A j \in ks : k <= j

\* The loop goes on with row k, or is over and sleeps 65 minutes.
GoRow(f, k) ==
    IF k = 0 THEN [f EXCEPT !.pc = "sleep65", !.i = 0, !.slept = FALSE]
    ELSE [f EXCEPT !.pc = "stats", !.i = k]

InitDg ==
    [pc |-> "check", rows |-> <<>>, i |-> 0, today |-> NoDate, slept |-> FALSE,
     tried |-> {}, failed |-> {}]

\* ensure_user: INSERT INTO users(user_id) ... ON CONFLICT DO NOTHING
ensure_user(uid) ==
    /\ uid \notin DOMAIN users
    /\ users' = [u \in DOMAIN users \cup {uid} |->
                    IF u = uid THEN NoDate ELSE users[u]]
    /\ UNCHANGED <<events, reqs, dg, attempts, offDigest>>

\* Mutant of LoopCheckHour: the pass is started whatever the hour.
LoopCheckHour_AnyHour ==
    /\ dg.pc = "check"
    /\ dg' = [dg EXCEPT !.pc = "fetch"]
    /\ UNCHANGED <<events, reqs, users, attempts, offDigest>>

\* `now = datetime.now(tz); if now.hour == DIGEST_HOUR: ... else: sleep(5 * 60)`
LoopCheckHour ==
    /\ dg.pc = "check"
    /\ dg' = [dg EXCEPT !.pc = IF TzHour = DIGEST_HOUR THEN "fetch" ELSE "sleep5"]
    /\ UNCHANGED <<events, reqs, users, attempts, offDigest>>

\* `rows = await con.fetch(...); today = date.today(); for r in rows:` up to
\* the first row that is not skipped.
LoopFetchRows(order) ==
    /\ dg.pc = "fetch"
    /\ LET rows == FetchRows(order)
       IN dg' = GoRow([dg EXCEPT !.rows = rows, !.today = Today,
                                 !.tried = {}, !.failed = {}],
                      NextRow(rows, 0, Today))
    /\ UNCHANGED <<events, reqs, users, attempts, offDigest>>

\* _send_digest_to_user: `s = await fetch_stats(uid); chats = await
\* free_chat_count_today(uid)` (reads of the events table).
DigestFetchStats ==
    /\ dg.pc = "stats"
    /\ dg' = [dg EXCEPT !.pc = "ai"]
    /\ UNCHANGED <<events, reqs, users, attempts, offDigest>>

\* `ai = await ai_reply(uid, prompt, 0.8, 280)`: the invocation is entered; its
\* steps are those of the usage gate.
DigestAiReply ==
    /\ dg.pc = "ai"
    /\ AiReplyCall(DigestReq, dg.rows[dg.i].user_id, DIGEST_MAX_TOKENS)

\* Mutant of DigestSend: a failed send is not caught; the exception ends the
\* pass in the loop's `except`, which sleeps and starts over.
DigestSend_Uncaught(ok) ==
    /\ dg.pc = "ai" /\ reqs[DigestReq].pc = "done"
    /\ LET uid == dg.rows[dg.i].user_id
       IN /\ attempts' = [attempts EXCEPT ![<<uid, dg.today>>] = @ + 1]
          /\ dg' = [dg EXCEPT !.pc = IF ok THEN "cursor" ELSE "sleep5",
                              !.tried = @ \cup {uid},
                              !.failed = IF ok THEN @ ELSE @ \cup {uid}]
    /\ reqs' = [reqs EXCEPT ![DigestReq] = IdleReq]
    /\ UNCHANGED <<events, users, offDigest>>

\* ai_reply returned: `try: await bot.send_message(uid, text, ...) except
\* Exception: log.warning(...)`. ok: whether the transport delivered.
DigestSend(ok) ==
    /\ dg.pc = "ai" /\ reqs[DigestReq].pc = "done"
    /\ LET uid == dg.rows[dg.i].user_id
       IN /\ attempts' = [attempts EXCEPT ![<<uid, dg.today>>] = @ + 1]
          /\ dg' = [dg EXCEPT !.pc = "cursor",
                              !.tried = @ \cup {uid},
                              !.failed = IF ok THEN @ ELSE @ \cup {uid}]
    /\ reqs' = [reqs EXCEPT ![DigestReq] = IdleReq]
    /\ UNCHANGED <<events, users, offDigest>>

\* `UPDATE users SET last_digest_date=$1 WHERE user_id=$2`, then the next row;
\* after the last, `await asyncio.sleep(65 * 60)`.
DigestSetCursor ==
    /\ dg.pc = "cursor"
    /\ users' = [users EXCEPT ![dg.rows[dg.i].user_id] = dg.today]
    /\ dg' = GoRow(dg, NextRow(dg.rows, dg.i, dg.today))
    /\ UNCHANGED <<events, reqs, attempts, offDigest>>

\* Database statements that raise in a run.
MaxErrs == 1

\* A database statement raises while the pass is at an actor: a read of the
\* ledger (fetch_stats, free_chat_count_today), a statement of the usage gate
\* inside ai_reply, or the UPDATE of the cursor. Nothing catches it before
\* the loop's `except Exception`, which logs and runs `await
\* asyncio.sleep(60)`: the for loop is over. The frame of the ai_reply the
\* exception went through is gone.
DigestRaise ==
    /\ \/ dg.pc \in {"stats", "cursor"}
       \/ dg.pc = "ai" /\ reqs[DigestReq].pc \in {"can_spend", "block", "log_call", "add_spend"}
    /\ Len(errs) < MaxErrs
    /\ errs' = Append(errs,
            [uid |-> dg.rows[dg.i].user_id, date |-> dg.today,
             inHour |-> (Today = dg.today /\ TzHour = DIGEST_HOUR),
             rest |-> {dg.rows[k].user_id : k \in
                         {j \in DOMAIN dg.rows :
                             j > dg.i /\ dg.rows[j].last_digest_date # dg.today}}])
    /\ dg' = [dg EXCEPT !.pc = "sleep60"]
    /\ reqs' = [reqs EXCEPT ![DigestReq] = IdleReq]
    /\ UNCHANGED <<events, users, attempts, clockVars, timerVars, slotVars,
                   handlerVars, pomoVars>>

\* The 60 seconds of the `except` branch are over: the next iteration.
LoopErrWake ==
    /\ dg.pc = "sleep60"
    /\ dg' = [dg EXCEPT !.pc = "check"]
    /\ UNCHANGED <<events, reqs, users, attempts, errs, clockVars, timerVars,
                   slotVars, handlerVars, pomoVars>>

\* A sleep is over: 65 minutes end after the hour has changed, 5 minutes at
\* any time.
LoopWake ==
    /\ \/ dg.pc = "sleep5"
       \/ dg.pc = "sleep65" /\ dg.slept
    /\ dg' = [dg EXCEPT !.pc = "check", !.slept = FALSE]
    /\ UNCHANGED <<events, reqs, users, attempts, offDigest>>

\* An hour of wall clock passes. fall = 1: DIGEST_TZ falls back an hour at this
\* moment, so its hour repeats.
Tick(fall) ==
    /\ now + 1 < (MaxDay + 1) * HoursPerDay
    /\ tzoff - fall >= 0 - MaxDst
    /\ now' = now + 1
    /\ tzoff' = tzoff - fall
    /\ dg' = [dg EXCEPT !.slept = (dg.pc = "sleep65")]
    /\ UNCHANGED <<events, reqs, offClock>>


\* ------------------------------------------------------------------ timers
\* start_timer / cancel_user_timer invocations in flight at once.
MaxCalls == 2
\* schedule_timer tasks created in a run.
MaxTasks == 3

Calls == 1..MaxCalls
\* The timers of different actors share nothing (every dict is keyed by uid):
\* the timer engine is followed for one actor.
TimerUsers == {1}
\* Minutes of the preset button timer:5.
Minutes == {5}

IdleCall == [pc |-> "idle", op |-> "none", uid |-> None, minutes |-> 0,
             t |-> None, pre |-> {}]

\* dict.pop(key, None) / dict.get(key) / d[key] = v
Get(d, key) == IF key \in DOMAIN d THEN d[key] ELSE None
Pop(d, key) == [k \in DOMAIN d \ {key} |-> d[k]]
Put(d, key, v) == [k \in DOMAIN d \cup {key} |-> IF k = key THEN v ELSE d[k]]

\* task.done(): the coroutine returned or raised.
TaskDone(ts, t) == ts[t].pc \in {"done", "failed", "cancelled"}

\* cancel_user_timer up to its await: `t = active_timers.pop(uid, None);
\* timer_meta.pop(uid, None); if t and not t.done(): t.cancel()`.
\* CancelledError is raised in the task at the await it is suspended in, which
\* `except asyncio.CancelledError: pass` ends: the task does nothing more.
MustCancel(uid) ==
    Get(active_timers, uid) # None /\ ~TaskDone(tasks, Get(active_timers, uid))

CancelledTasks(uid) ==
    IF MustCancel(uid)
    THEN [tasks EXCEPT ![Get(active_timers, uid)].pc = "cancelled"]
    ELSE tasks

\* start_timer after cancel_user_timer returned: `timer_meta[uid] = (until,
\* minutes); task = asyncio.create_task(schedule_timer(...));
\* active_timers[uid] = task`: the frame of the new task, which starts in
\* asyncio.sleep.
NewTask(uid, minutes) ==
    [uid |-> uid, minutes |-> minutes, pc |-> "sleep"]

\* The sessions of an actor that are still running (their task is not done)
\* and whose start_timer has logged timer_start.
StartedTasks(ts, uid) ==
    {t \in DOMAIN ts : /\ ts[t].uid = uid
                       /\ ~TaskDone(ts, t)
                       /\ Row(uid, "timer_start", ts[t].minutes, t) \in DOMAIN events}

\* start_timer is called: `await cancel_user_timer(uid)`. With a live task the
\* call is suspended in log_event(uid, "timer_cancel"); without, it runs on to
\* `await log_event(uid, "timer_start", minutes)`.
StartTimerCall(c, uid, minutes) ==
    /\ calls[c].pc = "idle"
    /\ \A b \in Calls : b < c => calls[b].pc # "idle"
    /\ Len(tasks) < MaxTasks
    /\ IF MustCancel(uid)
       THEN /\ tasks' = CancelledTasks(uid)
            /\ active_timers' = Pop(active_timers, uid)
            /\ timer_meta' = Pop(timer_meta, uid)
            /\ calls' = [calls EXCEPT ![c] = [IdleCall EXCEPT
                    !.pc = "log_cancel", !.op = "start", !.uid = uid,
                    !.minutes = minutes, !.t = Get(active_timers, uid)]]
       ELSE /\ timer_meta' = Put(timer_meta, uid, minutes)
            /\ tasks' = Append(tasks, NewTask(uid, minutes))
            /\ active_timers' = Put(active_timers, uid, Len(tasks) + 1)
            /\ calls' = [calls EXCEPT ![c] = [IdleCall EXCEPT
                    !.pc = "log_start", !.op = "start", !.uid = uid,
                    !.minutes = minutes, !.t = Len(tasks) + 1]]
    /\ UNCHANGED <<events, covered, offTimer>>

\* cancel_user_timer is called on its own (cb_timer_stop). Without a live task
\* it returns without an await.
CancelCall(c, uid) ==
    /\ calls[c].pc = "idle"
    /\ \A b \in Calls : b < c => calls[b].pc # "idle"
    /\ tasks' = CancelledTasks(uid)
    /\ active_timers' = Pop(active_timers, uid)
    /\ timer_meta' = Pop(timer_meta, uid)
    /\ IF MustCancel(uid)
       THEN /\ calls' = [calls EXCEPT ![c] = [IdleCall EXCEPT
                    !.pc = "log_cancel", !.op = "cancel", !.uid = uid,
                    !.t = Get(active_timers, uid),
                    !.pre = StartedTasks(tasks', uid)]]
            /\ UNCHANGED covered
       ELSE /\ covered' = covered \cup StartedTasks(tasks, uid)
            /\ UNCHANGED calls
    /\ UNCHANGED <<events, offTimer>>

\* `await log_event(uid, "timer_cancel")` is over: cancel_user_timer returns;
\* start_timer goes on to create and register its task.
CallLogCancel(c) ==
    /\ calls[c].pc = "log_cancel"
    /\ events' = log_event(events, calls[c].uid, "timer_cancel", None, calls[c].t)
    /\ IF calls[c].op = "cancel"
       THEN /\ calls' = [calls EXCEPT ![c] = IdleCall]
            /\ covered' = covered \cup {t \in calls[c].pre : ~TaskDone(tasks, t)}
            /\ UNCHANGED <<active_timers, timer_meta, tasks>>
       ELSE /\ timer_meta' = Put(timer_meta, calls[c].uid, calls[c].minutes)
            /\ tasks' = Append(tasks, NewTask(calls[c].uid, calls[c].minutes))
            /\ active_timers' = Put(active_timers, calls[c].uid, Len(tasks) + 1)
            /\ calls' = [calls EXCEPT ![c].pc = "log_start", ![c].t = Len(tasks) + 1]
            /\ UNCHANGED covered
    /\ UNCHANGED offTimer

\* `await log_event(uid, "timer_start", minutes); await track(...)`, and
\* start_timer returns (POSTHOG_API_KEY is not set: track returns at once).
CallLogStart(c) ==
    /\ calls[c].pc = "log_start"
    /\ events' = log_event(events, calls[c].uid, "timer_start", calls[c].minutes,
                           calls[c].t)
    /\ calls' = [calls EXCEPT ![c] = IdleCall]
    /\ UNCHANGED <<active_timers, timer_meta, tasks, covered, offTimer>>

\* Mutant of TimerElapsed: timer_done is not logged before the prompt is sent.
TimerElapsed_LogLater(t) ==
    /\ tasks[t].pc = "sleep"
    /\ tasks' = [tasks EXCEPT ![t].pc = "logged"]
    /\ UNCHANGED <<events, active_timers, timer_meta, calls, covered, offTimer>>

\* schedule_timer: `await asyncio.sleep(minutes * 60)` is over and the INSERT
\* of `await log_event(uid, "timer_done", minutes)` is executed; the task has
\* not resumed from it yet.
TimerElapsed(t) ==
    /\ tasks[t].pc = "sleep"
    /\ events' = log_event(events, tasks[t].uid, "timer_done", tasks[t].minutes, t)
    /\ tasks' = [tasks EXCEPT ![t].pc = "logged"]
    /\ UNCHANGED <<active_timers, timer_meta, calls, covered, offTimer>>

\* Mutant of TimerResume: the task does not remove its registry entries.
TimerResume_NoPop(t) ==
    /\ tasks[t].pc = "logged"
    /\ tasks' = [tasks EXCEPT ![t].pc = "send"]
    /\ UNCHANGED <<events, active_timers, timer_meta, calls, covered, offTimer>>

\* The task resumes: `active_timers.pop(uid, None); timer_meta.pop(uid, None)`
\* and is suspended in bot.send_message.
TimerResume(t) ==
    /\ tasks[t].pc = "logged"
    /\ active_timers' = Pop(active_timers, tasks[t].uid)
    /\ timer_meta' = Pop(timer_meta, tasks[t].uid)
    /\ tasks' = [tasks EXCEPT ![t].pc = "send"]
    /\ UNCHANGED <<events, calls, covered, offTimer>>

\* bot.send_message delivers the "time's up" prompt and the task ends ("done":
\* track returns at once), or it raises: only CancelledError is caught, so the
\* exception ends the task ("failed").
TimerSend(t, ok) ==
    /\ tasks[t].pc = "send"
    /\ tasks' = [tasks EXCEPT ![t].pc = IF ok THEN "done" ELSE "failed"]
    /\ covered' = covered \ {t}
    /\ UNCHANGED <<events, active_timers, timer_meta, calls, offTimer>>

\* ------------------------------------------------------ tracked message slot
\* send_clean invocations followed at a time (handlers run concurrently).
MaxSends == 1
\* Bot messages sent in a run.
MaxMsgs == 3

Sends == 1..MaxSends
\* The frames of the send_clean invocations: those of Sends and one more,
\* which only the overlapping invocations of SpecRace use.
Frames == 1..(MaxSends + 1)
\* The (chat_id, user_id) keys of LAST_BOT_MSG.
Keys == {1, 2}
\* <<tag, preserve_tags>> of the callers of send_clean: the menus and answers
\* ("menu", "help", "stats", "coach", "focus": all sent with
\* preserve_tags={"timer"}, followed as "menu") and cb_timer's fallback card
\* (tag "timer", no preserve_tags).
SendCleanArgs == {<<"menu", {"timer"}>>, <<"timer", {}>>}
\* Tags the handlers pass to update_last_tag after an edit in place.
RetagTags == {"menu"}

\* Frame of a send_clean invocation. History: entry and entryTag are the slot
\* the call read, tried the message its delete_message call named, deleted
\* whether that call succeeded; m is the message the call returns.
IdleSend == [pc |-> "idle", key |-> None, tag |-> "none", preserve |-> {},
             old |-> None, entry |-> None, entryTag |-> "none", tried |-> None,
             deleted |-> FALSE, m |-> None]

\* The message `m = await bot.send_message(...)` returns.
NewMsg(key, tag) == [key |-> key, tag |-> tag, live |-> TRUE]
\* A message that was deleted from its chat.
Gone == [key |-> None, tag |-> "none", live |-> FALSE]

\* Mutant of SendCleanCall: preserve_tags is not looked at.
SendCleanCall_NoPreserve(c, key, tag, preserve) ==
    /\ sends[c].pc = "idle"
    /\ \A b \in Sends : b < c => sends[b].pc # "idle"
    /\ Len(msgs) < MaxMsgs
    /\ LET has == key \in DOMAIN LAST_BOT_MSG
           mid == LAST_BOT_MSG[key][1]
           last_tag == LAST_BOT_MSG[key][2]
       IN sends' = [sends EXCEPT ![c] = [IdleSend EXCEPT
               !.pc = IF has THEN "delete" ELSE "send",
               !.key = key, !.tag = tag, !.preserve = preserve,
               !.old = IF has THEN mid ELSE None,
               !.entry = IF has THEN mid ELSE None,
               !.entryTag = IF has THEN last_tag ELSE "none"]]
    /\ UNCHANGED <<LAST_BOT_MSG, msgs, offSlot>>

\* send_clean up to its first await: `mid_tag = LAST_BOT_MSG.get(key)`; with a
\* slot whose tag is not preserved the call is suspended in
\* bot.delete_message(chat_id, mid), else in bot.send_message.
SendCleanCall(c, key, tag, preserve) ==
    /\ sends[c].pc = "idle"
    /\ \A b \in Sends : b < c => sends[b].pc # "idle"
    /\ Len(msgs) < MaxMsgs
    /\ LET has == key \in DOMAIN LAST_BOT_MSG
           mid == LAST_BOT_MSG[key][1]
           last_tag == LAST_BOT_MSG[key][2]
           del == has /\ ~(preserve # {} /\ last_tag \in preserve)
       IN sends' = [sends EXCEPT ![c] = [IdleSend EXCEPT
               !.pc = IF del THEN "delete" ELSE "send",
               !.key = key, !.tag = tag, !.preserve = preserve,
               !.old = IF del THEN mid ELSE None,
               !.entry = IF has THEN mid ELSE None,
               !.entryTag = IF has THEN last_tag ELSE "none"]]
    /\ UNCHANGED <<LAST_BOT_MSG, msgs, offSlot>>

\* Mutant of SendCleanDelete: the exception of a failed delete_message is not
\* caught and leaves send_clean.
SendCleanDelete_Raises(c, ok) ==
    /\ sends[c].pc = "delete"
    /\ ok => msgs[sends[c].old].live
    /\ msgs' = [msgs EXCEPT ![sends[c].old] = IF ok THEN Gone ELSE @]
    /\ sends' = IF ok
                THEN [sends EXCEPT ![c].pc = "send", ![c].tried = sends[c].old,
                                   ![c].deleted = ok]
                ELSE [sends EXCEPT ![c] = IdleSend]
    /\ UNCHANGED <<LAST_BOT_MSG, offSlot>>

\* `try: await bot.delete_message(chat_id, mid) except Exception: pass`: the
\* message leaves the chat, or the call raises (always when the message is
\* already gone) and the exception is dropped.
SendCleanDelete(c, ok) ==
    /\ sends[c].pc = "delete"
    /\ ok => msgs[sends[c].old].live
    /\ msgs' = [msgs EXCEPT ![sends[c].old] = IF ok THEN Gone ELSE @]
    /\ sends' = [sends EXCEPT ![c].pc = "send", ![c].tried = sends[c].old,
                              ![c].deleted = ok]
    /\ UNCHANGED <<LAST_BOT_MSG, offSlot>>

\* `m = await bot.send_message(...); LAST_BOT_MSG[key] = (m.message_id, tag);
\* return m` ("returned"), or send_message raises and the exception leaves
\* send_clean.
SendCleanSend(c, ok) ==
    /\ sends[c].pc = "send"
    /\ IF ok
       THEN /\ msgs' = Append(msgs, NewMsg(sends[c].key, sends[c].tag))
            /\ LAST_BOT_MSG' = Put(LAST_BOT_MSG, sends[c].key,
                                   <<Len(msgs) + 1, sends[c].tag>>)
            /\ sends' = [sends EXCEPT ![c].pc = "returned",
                                      ![c].m = Len(msgs) + 1]
       ELSE /\ sends' = [sends EXCEPT ![c] = IdleSend]
            /\ UNCHANGED <<LAST_BOT_MSG, msgs>>
    /\ UNCHANGED offSlot

\* Some send_clean invocation has run `LAST_BOT_MSG[key] = ...; return m` and
\* its caller has not taken the result yet. Nothing is awaited between the two,
\* so no other coroutine moves before the caller has it (see the Next
\* formulas).
Returning == \E c \in Frames : sends[c].pc = "returned"

\* The caller has taken send_clean's result: the invocation is over.
SendCleanDone(c) ==
    /\ sends[c].pc = "returned"
    /\ sends' = [sends EXCEPT ![c] = IdleSend]
    /\ UNCHANGED <<LAST_BOT_MSG, msgs, offSlot>>

\* bot.delete_message without transport faults: it deletes the message when it
\* is in the chat and raises when it is not.
SendCleanDeleteLive(c) ==
    /\ sends[c].pc = "delete"
    /\ SendCleanDelete(c, msgs[sends[c].old].live)

\* Mutant of update_last_tag: a missing slot is created.
update_last_tag_Creates(key, tag) ==
    /\ LAST_BOT_MSG' = IF key \in DOMAIN LAST_BOT_MSG
                       THEN [LAST_BOT_MSG EXCEPT ![key] = <<@[1], tag>>]
                       ELSE Put(LAST_BOT_MSG, key, <<None, tag>>)
    /\ UNCHANGED <<msgs, sends, offSlot>>

\* update_last_tag (no await inside: it runs in one piece):
\* `if key in LAST_BOT_MSG: mid, _ = LAST_BOT_MSG[key];
\* LAST_BOT_MSG[key] = (mid, tag)`.
update_last_tag(key, tag) ==
    /\ LAST_BOT_MSG' = IF key \in DOMAIN LAST_BOT_MSG
                       THEN [LAST_BOT_MSG EXCEPT ![key] = <<@[1], tag>>]
                       ELSE LAST_BOT_MSG
    /\ UNCHANGED <<msgs, sends, offSlot>>

\* The "timer is on" card of cb_timer, custom_minutes_input and
\* schedule_pomodoro: `m = await bot.send_message(...);
\* LAST_BOT_MSG[(chat_id, uid)] = (m.message_id, "timer")`. (When send_message
\* raises, cb_timer calls send_clean with tag "timer" and no preserve_tags.)
TimerCard(key) ==
    /\ Len(msgs) < MaxMsgs
    /\ msgs' = Append(msgs, NewMsg(key, "timer"))
    /\ LAST_BOT_MSG' = Put(LAST_BOT_MSG, key, <<Len(msgs) + 1, "timer">>)
    /\ UNCHANGED <<sends, offSlot>>

\* ------------------------------------------------------------ timer handlers
\* Minutes a user can ask for: the ends of the allowed range and their
\* neighbours outside it.
DurationInputs == {0, 1, 180, 181}
\* The range custom_minutes_input accepts (bot.py:747).
MIN_MINUTES == 1
MAX_MINUTES == 180
\* Default of `timer_meta.get(uid, (None, 15))[1]` (bot.py:704).
AGAIN_DEFAULT == 15

\* custom_minutes_input with a text of digits n: outside 1..180 the handler
\* answers with send_clean(..., tag="menu", preserve_tags={"timer"}) and
\* returns; inside it calls start_timer(chat_id, uid, n).
custom_minutes_input(c, uid, n) ==
    IF MIN_MINUTES <= n /\ n <= MAX_MINUTES
    THEN StartTimerCall(c, uid, n)
    ELSE \E s \in Sends : SendCleanCall(s, uid, "menu", {"timer"})

\* cb_timer with callback data "timer:<n>": `minutes =
\* int(data.split(":")[1])`, then start_timer(chat_id, uid, minutes).
cb_timer(c, uid, n) == StartTimerCall(c, uid, n)

\* cb_timer with callback data "timer:again": `minutes =
\* timer_meta.get(uid, (None, 15))[1]`, then start_timer.
cb_timer_again(c, uid) ==
    StartTimerCall(c, uid, IF uid \in DOMAIN timer_meta THEN timer_meta[uid]
                           ELSE AGAIN_DEFAULT)

\* The repeat button of the time's-up prompt (callback data "timer:again") is
\* pressed: the prompt of an expired session of the actor is in the chat.
PressAgain(c, uid) ==
    /\ \E t \in DOMAIN tasks : tasks[t].uid = uid /\ tasks[t].pc = "done"
    /\ cb_timer_again(c, uid)

\* The tasks whose start_timer has returned to its handler, which has not sent
\* the card yet.
AwaitingCard == {t \in DOMAIN tasks : /\ t \notin cards
                   /\ Row(tasks[t].uid, "timer_start", tasks[t].minutes, t)
                         \in DOMAIN events}

\* The handler after start_timer: `m = await bot.send_message(...);
\* LAST_BOT_MSG[(chat_id, uid)] = (m.message_id, "timer")`. When send_message
\* raises, cb_timer falls back to send_clean(..., tag="timer").
TimerCardSend(t, ok) ==
    /\ t \in AwaitingCard
    /\ cards' = cards \cup {t}
    /\ IF ok
       THEN /\ Len(msgs) < MaxMsgs
            /\ msgs' = Append(msgs, NewMsg(tasks[t].uid, "timer"))
            /\ LAST_BOT_MSG' = Put(LAST_BOT_MSG, tasks[t].uid,
                                   <<Len(msgs) + 1, "timer">>)
            /\ UNCHANGED <<sends, events, timerVars, offHandler>>
       ELSE /\ \E s \in Sends :
                  /\ sends[s].pc = "idle"
                  /\ \A b \in Sends : b < s => sends[b].pc # "idle"
                  /\ Len(msgs) < MaxMsgs
                  /\ LET key == tasks[t].uid
                         has == key \in DOMAIN LAST_BOT_MSG
                     IN sends' = [sends EXCEPT ![s] = [IdleSend EXCEPT
                             !.pc = IF has THEN "delete" ELSE "send",
                             !.key = key, !.tag = "timer",
                             !.old = IF has THEN LAST_BOT_MSG[key][1] ELSE None,
                             !.entry = IF has THEN LAST_BOT_MSG[key][1] ELSE None,
                             !.entryTag = IF has THEN LAST_BOT_MSG[key][2]
                                          ELSE "none"]]
            /\ UNCHANGED <<LAST_BOT_MSG, msgs, events, timerVars, offHandler>>

\* ----------------------------------------------------------------- pomodoro
\* schedule_pomodoro: 25 minutes of work, then 5 of rest (bot.py:385, 404).
WORK_MINUTES == 25
BREAK_MINUTES == 5
\* The preset button timer:15, pressed while a pomodoro runs.
OtherMinutes == {15}

\* The frame of schedule_pomodoro: at "wait" it is suspended in `await
\* active_timers[uid]` on task t; "over": it has returned.
IdlePomo == [pc |-> "idle", t |-> None]

\* The sessions and the start_timer calls of a duration.
TasksOf(minutes) == {t \in DOMAIN tasks : tasks[t].minutes = minutes}
StartsOf(minutes) == {c \in Calls : calls[c].pc # "idle" /\ calls[c].minutes = minutes}

\* cb_timer with callback data "timer:pomodoro": `asyncio.create_task(
\* schedule_pomodoro(chat_id, uid))`, which begins with `await
\* start_timer(chat_id, uid, 25)`. One pomodoro is followed.
cb_timer_pomodoro(c, uid) ==
    /\ pomo.pc = "idle"
    /\ TasksOf(WORK_MINUTES) = {} /\ StartsOf(WORK_MINUTES) = {}
    /\ StartTimerCall(c, uid, WORK_MINUTES)

\* start_timer has returned and the announcement's `await bot.send_message`
\* is over: the slot is set to the new message tagged "timer", or the
\* exception is dropped; then `await active_timers[uid]`: the task registered
\* now is awaited, and without an entry the KeyError ends the pomodoro
\* (`except Exception: return`).
PomodoroAnnounce(ok) ==
    /\ pomo.pc = "idle"
    /\ \E w \in TasksOf(WORK_MINUTES) \cap AwaitingCard :
          /\ cards' = cards \cup {w}
          /\ IF ok
             THEN /\ Len(msgs) < MaxMsgs
                  /\ msgs' = Append(msgs, NewMsg(tasks[w].uid, "timer"))
                  /\ LAST_BOT_MSG' = Put(LAST_BOT_MSG, tasks[w].uid,
                                         <<Len(msgs) + 1, "timer">>)
             ELSE UNCHANGED <<LAST_BOT_MSG, msgs>>
          /\ pomo' = IF tasks[w].uid \in DOMAIN active_timers
                     THEN [pc |-> "wait", t |-> active_timers[tasks[w].uid]]
                     ELSE [pc |-> "over", t |-> None]
    /\ UNCHANGED <<sends, events, timerVars, reqs, clockVars, digestVars, errVars>>

\* The awaited task has ended by an exception (its time's-up send raised):
\* `except Exception: return`.
PomodoroGiveUp ==
    /\ pomo.pc = "wait" /\ tasks[pomo.t].pc = "failed"
    /\ pomo' = [pc |-> "over", t |-> None]
    /\ UNCHANGED <<events, reqs, clockVars, digestVars, timerVars, slotVars,
                   handlerVars, errVars>>

\* The awaited task has returned: it has sent its prompt, or it was cancelled
\* (schedule_timer ends `except asyncio.CancelledError: pass`, so the task
\* returns None and the await raises nothing). The pomodoro goes on with
\* `await start_timer(chat_id, uid, 5)`; after it only a message is sent. The
\* run is over once its break session exists.
PomodoroBreak(c) ==
    /\ pomo.pc = "wait" /\ tasks[pomo.t].pc \in {"done", "cancelled"}
    /\ TasksOf(BREAK_MINUTES) = {} /\ StartsOf(BREAK_MINUTES) = {}
    /\ StartTimerCall(c, tasks[pomo.t].uid, BREAK_MINUTES)

Init ==
    /\ events = <<>>   \* no row
    /\ now = 0
    /\ tzoff = 0
    /\ reqs = [r \in Reqs |-> IdleReq]
    /\ users = <<>>    \* no row
    /\ dg = InitDg
    /\ attempts = [k \in Users \X (0..MaxDay) |-> 0]
    /\ active_timers = <<>>   \* {}
    /\ timer_meta = <<>>      \* {}
    /\ tasks = <<>>
    /\ calls = [c \in Calls |-> IdleCall]
    /\ covered = {}
    /\ LAST_BOT_MSG = <<>>    \* {}
    /\ msgs = <<>>
    /\ sends = [c \in Frames |-> IdleSend]
    /\ cards = {}
    /\ pomo = IdlePomo
    /\ errs = <<>>

NextGate ==
    \/ \E r \in Reqs, uid \in Users, mt \in {CHAT_MAX_TOKENS, DIGEST_MAX_TOKENS} :
            AiReplyCall(r, uid, mt)
    \/ \E r \in Reqs : AiCanSpend(r)
    \/ \E r \in Reqs : AiLogBlock(r)
    \/ \E r \in Reqs, o \in BackendOutcomes : AiGenerate(r, o)
    \/ \E r \in Reqs : AiLogCall(r)
    \/ \E r \in Reqs : AiAddSpend(r)
    \/ NewDay

SpecGate == Init /\ [][NextGate]_vars

\* The usage gate over several days: the chat handlers' requests, one after
\* another and overlapping, each returning to its handler.
NextQuota ==
    \/ \E r \in Reqs, uid \in QuotaUsers : ChatAiReply(r, uid)
    \/ \E r \in Reqs : AiCanSpend(r)
    \/ \E r \in Reqs : AiLogBlock(r)
    \/ \E r \in Reqs, o \in BackendOutcomes : AiGenerate(r, o)
    \/ \E r \in Reqs : AiLogCall(r)
    \/ \E r \in Reqs : AiAddSpend(r)
    \/ \E r \in Reqs : AiReturn(r)
    \/ NewDay

SpecQuota == Init /\ [][NextQuota]_vars

NextDigest ==
    \/ \E u \in Users : ensure_user(u)
    \/ LoopCheckHour
    \/ \E order \in Perms(DOMAIN users) : LoopFetchRows(order)
    \/ DigestFetchStats
    \/ DigestAiReply
    \/ AiCanSpend(DigestReq)
    \/ AiLogBlock(DigestReq)
    \/ \E o \in BackendOutcomes : AiGenerate(DigestReq, o)
    \/ AiLogCall(DigestReq)
    \/ AiAddSpend(DigestReq)
    \/ \E ok \in BOOLEAN : DigestSend(ok)
    \/ DigestSetCursor
    \/ LoopWake
    \/ \E fall \in {0, 1} : Tick(fall)

SpecDigest == Init /\ [][NextDigest]_vars

\* The digest loop with failing database statements.
NextDigestErr ==
    \/ NextDigest
    \/ DigestRaise
    \/ LoopErrWake

SpecDigestErr == Init /\ [][NextDigestErr]_vars


NextTimer ==
    \/ \E c \in Calls, u \in TimerUsers, m \in Minutes : StartTimerCall(c, u, m)
    \/ \E c \in Calls, u \in TimerUsers : CancelCall(c, u)
    \/ \E c \in Calls : CallLogCancel(c)
    \/ \E c \in Calls : CallLogStart(c)
    \/ \E t \in DOMAIN tasks : TimerElapsed(t)
    \/ \E t \in DOMAIN tasks : TimerResume(t)
    \/ \E t \in DOMAIN tasks, ok \in BOOLEAN : TimerSend(t, ok)

SpecTimer == Init /\ [][NextTimer]_vars

\* Timers started from the preset button, their expiry, and the repeat button
\* of the time's-up prompt.
NextAgain ==
    \/ \E c \in Calls, u \in TimerUsers, m \in Minutes : cb_timer(c, u, m)
    \/ \E c \in Calls, u \in TimerUsers : PressAgain(c, u)
    \/ \E c \in Calls : CallLogCancel(c)
    \/ \E c \in Calls : CallLogStart(c)
    \/ \E t \in DOMAIN tasks : TimerElapsed(t)
    \/ \E t \in DOMAIN tasks : TimerResume(t)
    \/ \E t \in DOMAIN tasks, ok \in BOOLEAN : TimerSend(t, ok)

SpecAgain == Init /\ [][NextAgain]_vars

\* C28: a start_timer called for an actor who has an expired session (its
\* prompt, with the repeat button, was sent) asks for that session's minutes.
\* The first timers all come from one preset, so the repeat button is the only
\* way to any other duration.
C28_AgainRepeats ==
    [][\A c \in Calls :
          (calls[c].pc = "idle" /\ calls'[c].op = "start")
          => \A t \in DOMAIN tasks :
                (tasks[t].uid = calls'[c].uid /\ tasks[t].pc = "done")
                => calls'[c].minutes = tasks[t].minutes]_vars

\* One pomodoro run, with the user pressing Stop and the preset button
\* timer:15 at any moment, and the countdowns' expiry.
NextPomodoro ==
    \/ \E c \in Calls, u \in TimerUsers : cb_timer_pomodoro(c, u)
    \/ \E c \in Calls, u \in TimerUsers, m \in OtherMinutes : cb_timer(c, u, m)
    \/ \E c \in Calls, u \in TimerUsers : CancelCall(c, u)
    \/ \E c \in Calls : CallLogCancel(c)
    \/ \E c \in Calls : CallLogStart(c)
    \/ \E ok \in BOOLEAN : PomodoroAnnounce(ok)
    \/ PomodoroGiveUp
    \/ \E c \in Calls : PomodoroBreak(c)
    \/ \E t \in DOMAIN tasks : TimerElapsed(t)
    \/ \E t \in DOMAIN tasks : TimerResume(t)
    \/ \E t \in DOMAIN tasks, ok \in BOOLEAN : TimerSend(t, ok)

SpecPomodoro == Init /\ [][NextPomodoro]_vars

\* The handlers that start a timer up to start_timer's return, without the
\* countdowns' expiry (the card they send afterwards is followed in SpecCard).
NextInput ==
    \/ \E s \in Sends : SendCleanDone(s)
    \/ /\ ~Returning
       /\ \/ \E c \in Calls, u \in TimerUsers, n \in DurationInputs :
                  custom_minutes_input(c, u, n)
          \/ \E c \in Calls, u \in TimerUsers, n \in DurationInputs :
                  cb_timer(c, u, n)
          \/ \E c \in Calls, u \in TimerUsers : cb_timer_again(c, u)
          \/ \E c \in Calls : CallLogCancel(c)
          \/ \E c \in Calls : CallLogStart(c)
          \/ \E s \in Sends, ok \in BOOLEAN : SendCleanDelete(s, ok)
          \/ \E s \in Sends, ok \in BOOLEAN : SendCleanSend(s, ok)

SpecInput == Init /\ [][NextInput]_vars

\* C14: no session is ever created, and no timer_start is ever recorded, with
\* minutes outside 1..180.
C14_DurationValidated ==
    /\ \A t \in DOMAIN tasks :
          MIN_MINUTES <= tasks[t].minutes /\ tasks[t].minutes <= MAX_MINUTES
    /\ \A x \in DOMAIN events :
          x.event = "timer_start" => MIN_MINUTES <= x.value /\ x.value <= MAX_MINUTES

\* Timers started from a preset button, their cards (sent directly, or by
\* send_clean when that fails) and the countdowns' expiry.
NextCard ==
    \/ \E s \in Sends : SendCleanDone(s)
    \/ /\ ~Returning
       /\ \/ \E c \in Calls, u \in TimerUsers, m \in Minutes : cb_timer(c, u, m)
          \/ \E c \in Calls : CallLogCancel(c)
          \/ \E c \in Calls : CallLogStart(c)
          \/ \E t \in DOMAIN tasks, ok \in BOOLEAN : TimerCardSend(t, ok)
          \/ \E t \in DOMAIN tasks : TimerElapsed(t)
          \/ \E t \in DOMAIN tasks : TimerResume(t)
          \/ \E t \in DOMAIN tasks, ok \in BOOLEAN : TimerSend(t, ok)
          \/ \E s \in Sends, ok \in BOOLEAN : SendCleanDelete(s, ok)
          \/ \E s \in Sends, ok \in BOOLEAN : SendCleanSend(s, ok)

SpecCard == Init /\ [][NextCard]_vars

\* No handler of the actor is running and no countdown of the actor is left:
\* every task of the actor has ended.
Settled(u) ==
    /\ \A c \in Calls : calls[c].pc # "idle" => calls[c].uid # u
    /\ \A s \in Sends : sends[s].pc # "idle" => sends[s].key # u
    /\ \A t \in DOMAIN tasks : tasks[t].uid = u => TaskDone(tasks, t) /\ t \in cards

\* C17: once a session of an actor has expired and the actor has no session
\* left, the actor's slot does not carry the tag "timer".
C17_ExpiryClearsTimerSlot ==
    \A u \in TimerUsers :
        (/\ Settled(u)
         /\ \E t \in DOMAIN tasks : tasks[t].uid = u /\ tasks[t].pc = "done")
        => ~(u \in DOMAIN LAST_BOT_MSG /\ LAST_BOT_MSG[u][2] = "timer")

\* send_clean from its call sites, update_last_tag and the timer card, on two
\* (conversation, actor) keys.
NextSlot ==
    \/ \E c \in Sends : SendCleanDone(c)
    \/ /\ ~Returning
       /\ \/ \E c \in Sends, k \in Keys, a \in SendCleanArgs :
                  SendCleanCall(c, k, a[1], a[2])
          \/ \E c \in Sends, ok \in BOOLEAN : SendCleanDelete(c, ok)
          \/ \E c \in Sends, ok \in BOOLEAN : SendCleanSend(c, ok)
          \/ \E k \in Keys, tag \in RetagTags : update_last_tag(k, tag)
          \/ \E k \in Keys : TimerCard(k)

SpecSlot == Init /\ [][NextSlot]_vars

\* The (chat_id, user_id) whose handlers overlap.
RaceKey == 1

\* Handlers of one user in one chat that overlap (every webhook request is
\* served in its own task), each answering with send_clean(..., tag="coach",
\* preserve_tags={"timer"}); no timer card is in play, so no slot is preserved,
\* and no delete_message fails on a message that is in the chat.
NextRace ==
    \/ \E c \in Frames : SendCleanDone(c)
    \/ /\ ~Returning
       /\ \/ \E c \in Frames : SendCleanCall(c, RaceKey, "menu", {"timer"})
          \/ \E c \in Frames : SendCleanDeleteLive(c)
          \/ \E c \in Frames, ok \in BOOLEAN : SendCleanSend(c, ok)

SpecRace == Init /\ [][NextRace]_vars

\* C29: when no send_clean is running, every bot message of the key that is
\* in the chat is the one the slot records. (Deletions of messages in the chat
\* succeed in SpecRace, so a message in the chat is one no deletion was
\* attempted on.)
C29_NoUntracked ==
    (\A c \in Frames : sends[c].pc = "idle")
    => \A m \in DOMAIN msgs :
          msgs[m].live => Get(LAST_BOT_MSG, msgs[m].key)[1] = m

\* ------------------------------------------------------------- slot: claims
\* The step in which send_clean invocation c returns its new message.
SendCleanReturns(c) == sends[c].pc = "send" /\ sends'[c].pc = "returned"

\* C11: a send_clean without preserve_tags that finds a slot attempts exactly
\* one deletion, on the slot's message; a failing deletion does not end the
\* call; when it returns the new message is in the chat and the slot is
\* (new message id, new tag), and the old message is gone when its deletion
\* succeeded.
C11_ReplaceDeletesOld ==
    [][\A c \in Sends :
          /\ sends[c].pc = "delete" => sends'[c].pc \in {"delete", "send"}
          /\ (SendCleanReturns(c) /\ sends[c].preserve = {} /\ sends[c].entry # None)
             => /\ sends[c].tried = sends[c].entry
                /\ sends[c].deleted => msgs'[sends[c].entry] = Gone
                /\ msgs'[sends'[c].m].live
                /\ msgs'[sends'[c].m].key = sends[c].key
                /\ LAST_BOT_MSG'[sends[c].key] = <<sends'[c].m, sends[c].tag>>]_vars

\* A send_clean without preserve_tags has returned a message, tracked by the
\* slot under the new tag, after its deletion of the message it replaced (sent
\* with another tag) had failed.
C11_Witness ==
    \E c \in Sends :
        /\ sends[c].pc = "returned" /\ sends[c].preserve = {}
        /\ sends[c].entry # None /\ sends[c].tried = sends[c].entry
        /\ ~sends[c].deleted /\ msgs[sends[c].entry].live
        /\ msgs[sends[c].entry].tag # sends[c].tag
        /\ msgs[sends[c].m].live
        /\ LAST_BOT_MSG[sends[c].key] = <<sends[c].m, sends[c].tag>>

\* C12: a send_clean whose slot's tag is in preserve_tags attempts no deletion
\* and leaves the old message as it is, and when it returns the slot is
\* (new message id, new tag).
C12_PreserveKeepsMessage ==
    [][\A c \in Sends :
          /\ (sends[c].pc = "delete")
             => ~(sends[c].preserve # {} /\ sends[c].entryTag \in sends[c].preserve)
          /\ (SendCleanReturns(c) /\ sends[c].entry # None
                /\ sends[c].entryTag \in sends[c].preserve)
             => /\ sends[c].tried = None
                /\ msgs'[sends[c].entry] = msgs[sends[c].entry]
                /\ LAST_BOT_MSG'[sends[c].key] = <<sends'[c].m, sends[c].tag>>]_vars

\* A menu was sent over a slot tagged "timer": the timer card is still in the
\* chat, no deletion was attempted, and the slot tracks the menu.
C12_Witness ==
    \E c \in Sends :
        /\ sends[c].pc = "returned" /\ sends[c].tag = "menu"
        /\ sends[c].entry # None /\ sends[c].entryTag \in sends[c].preserve
        /\ sends[c].tried = None
        /\ msgs[sends[c].entry].live /\ msgs[sends[c].entry].tag = "timer"
        /\ msgs[sends[c].m].live
        /\ LAST_BOT_MSG[sends[c].key] = <<sends[c].m, "menu">>

\* The messages of a key that are in the chat and were not sent with the
\* protected tag.
LiveCards(k) ==
    {m \in DOMAIN msgs : msgs[m].live /\ msgs[m].key = k /\ msgs[m].tag # "timer"}

\* C13: for every (conversation, actor), at most one bot message whose tag is
\* not the protected tag "timer" is in the chat.
C13_OneLiveCard == \A k \in Keys : Cardinality(LiveCards(k)) <= 1

\* C18: a step that changes LAST_BOT_MSG without sending or deleting a message
\* and outside send_clean (update_last_tag) creates no slot, leaves every
\* other slot as it is and keeps the tracked message id.
C18_RetagOnlyTag ==
    [][(msgs' = msgs /\ sends' = sends)
       => /\ DOMAIN LAST_BOT_MSG' = DOMAIN LAST_BOT_MSG
          /\ \A k \in DOMAIN LAST_BOT_MSG :
                /\ LAST_BOT_MSG'[k][1] = LAST_BOT_MSG[k][1]
                /\ \A j \in DOMAIN LAST_BOT_MSG \ {k} :
                      LAST_BOT_MSG'[k] # LAST_BOT_MSG[k]
                      => LAST_BOT_MSG'[j] = LAST_BOT_MSG[j]]_vars

\* The slot of key 1 was retagged: it tracks a message sent with tag "timer"
\* under the tag "menu"; key 2 has a slot and key 1's message is in the chat.
C18_Witness ==
    /\ DOMAIN LAST_BOT_MSG = Keys
    /\ LAST_BOT_MSG[1][2] = "menu"
    /\ msgs[LAST_BOT_MSG[1][1]].live /\ msgs[LAST_BOT_MSG[1][1]].tag = "timer"
    /\ LAST_BOT_MSG[2][2] = "timer"

\* ----------------------------------------------------------- timer: claims
\* The countdowns of an actor that are neither finished nor cancelled: the task
\* is in asyncio.sleep.
LiveCountdowns(uid) ==
    {t \in DOMAIN tasks : tasks[t].uid = uid /\ tasks[t].pc = "sleep"}

\* C1: for every actor, at every instant, at most one countdown that is
\* neither finished nor cancelled exists.
C1_AtMostOneLive ==
    \A u \in TimerUsers : Cardinality(LiveCountdowns(u)) <= 1

\* C2: once cancel_user_timer has returned, no session of the actor whose
\* start_timer had completed before the cancel began appends timer_done, and
\* none has its "time's up" prompt sent.
C2_NoExpiryAfterCancel ==
    [][\A t \in covered :
          /\ ~(tasks[t].pc = "sleep" /\ tasks'[t].pc = "logged")
          /\ ~(tasks[t].pc = "send" /\ tasks'[t].pc = "done")]_vars

\* The rows of one kind a timer task is the cause of.
TaskRows(t, event) == {x \in DOMAIN events : x.event = event /\ x.by = t}

\* C15: a session whose countdown reached its deadline has exactly one
\* timer_done row, for its actor and with its minutes as value, and once its
\* task has resumed from logging it the registry does not hold the session.
C15_ExpiryLogsOnce ==
    \A t \in DOMAIN tasks :
        /\ CountRows(events, TaskRows(t, "timer_done")) <= 1
        /\ \A x \in TaskRows(t, "timer_done") :
              x.value = tasks[t].minutes /\ x.uid = tasks[t].uid
        /\ tasks[t].pc \in {"logged", "send", "done", "failed"}
           => CountRows(events, TaskRows(t, "timer_done")) = 1
        /\ tasks[t].pc \in {"send", "done", "failed"}
           => Get(active_timers, tasks[t].uid) # t

\* A session that was started, was never cancelled and has expired: its prompt
\* is sent.
C15_Witness ==
    \E t \in DOMAIN tasks :
        /\ tasks[t].pc = "done"
        /\ TaskRows(t, "timer_start") # {}
        /\ TaskRows(t, "timer_cancel") = {}
        /\ CountRows(events, TaskRows(t, "timer_done")) = 1

\* The step in which the time's-up send of task t raises.
SendFails(t) == tasks[t].pc = "send" /\ tasks'[t].pc = "failed"

\* C24: when the time's-up send of a session raises, its timer_done row is in
\* the ledger and the registry does not hold the session; the failure changes
\* neither the registry, nor the ledger, nor any other task. Afterwards the
\* failed task stays as it is, no cancel_user_timer picks it (no timer_cancel
\* is logged for it), and a start_timer that finds no registered session goes
\* straight on to register a new countdown.
C24_SendFailureHarmless ==
    [][\A t \in DOMAIN tasks :
          /\ SendFails(t)
             => /\ CountRows(events, TaskRows(t, "timer_done")) = 1
                /\ Get(active_timers, tasks[t].uid) # t
                /\ UNCHANGED <<events, active_timers, timer_meta, calls>>
                /\ \A s \in DOMAIN tasks \ {t} : tasks'[s] = tasks[s]
          /\ tasks[t].pc = "failed"
             => /\ tasks'[t] = tasks[t]
                /\ \A x \in DOMAIN events' : ~(x.event = "timer_cancel" /\ x.by = t)
                /\ \A c \in Calls :
                      /\ calls'[c].pc = "log_cancel" => calls'[c].t # t
                      /\ (calls[c].pc = "idle" /\ calls'[c].op = "start"
                            /\ calls'[c].uid = tasks[t].uid
                            /\ Get(active_timers, tasks[t].uid) = None)
                         => /\ calls'[c].pc = "log_start"
                            /\ Get(active_timers', tasks[t].uid) = calls'[c].t
                            /\ tasks'[calls'[c].t].pc = "sleep"]_vars

\* The prompt of an expired session could not be sent; a later start_timer of
\* the actor has registered a new countdown and logged its timer_start, and
\* the ledger has no timer_cancel.
C24_Witness ==
    \E t, s \in DOMAIN tasks :
        /\ tasks[t].pc = "failed" /\ t < s /\ tasks[s].uid = tasks[t].uid
        /\ CountRows(events, TaskRows(t, "timer_done")) = 1
        /\ tasks[s].pc = "sleep" /\ Get(active_timers, tasks[s].uid) = s
        /\ TaskRows(s, "timer_start") # {}
        /\ \A x \in DOMAIN events : x.event # "timer_cancel"
        /\ \A c \in Calls : calls[c].pc = "idle"

\* C16: cancel_user_timer on a session that is counting down aborts it and
\* removes it; on an actor without such a session (none registered, or the
\* registered one has already logged timer_done) it cancels nothing and goes
\* on to log no timer_cancel.
C16_CancelIdempotent ==
    [][\A c \in Calls :
          (calls[c].pc = "idle" /\ calls'[c].op = "cancel")
          => /\ tasks[calls'[c].t].pc = "sleep"
             /\ tasks'[calls'[c].t].pc = "cancelled"
             /\ calls'[c].uid \notin DOMAIN active_timers']_vars

\* C19: a session that has a timer_done or a timer_cancel row has its
\* timer_start row.
C19_StartLoggedFirst ==
    \A t \in DOMAIN tasks :
        (TaskRows(t, "timer_done") # {} \/ TaskRows(t, "timer_cancel") # {})
        => TaskRows(t, "timer_start") # {}

\* C20: a start_timer call goes on to log timer_cancel only for a prior
\* session that has not expired, and when it returns the session it created,
\* if still counting down, is the registered one.
C20_StartReplaces ==
    [][\A c \in Calls :
          /\ (calls[c].pc = "idle" /\ calls'[c].pc = "log_cancel"
                /\ calls'[c].op = "start")
             => tasks[calls'[c].t].pc = "sleep"
          /\ (calls[c].pc = "log_start" /\ calls'[c].pc = "idle"
                /\ tasks[calls[c].t].pc = "sleep")
             => Get(active_timers', calls[c].uid) = calls[c].t]_vars

\* C26: the step in which an expired task removes the registry entries of its
\* actor removes no entry that belongs to another session still running: a
\* registered task other than the expiring one stays registered, with its
\* timer_meta entry.
C26_ExpiryRemovesOwn ==
    [][\A t \in DOMAIN tasks :
          (tasks[t].pc = "logged" /\ tasks'[t].pc = "send")
          => \A u \in DOMAIN active_timers :
                (active_timers[u] # t /\ ~TaskDone(tasks, active_timers[u]))
                => /\ Get(active_timers', u) = active_timers[u]
                   /\ Get(timer_meta', u) = Get(timer_meta, u)]_vars

\* C27: no session has both a timer_done and a timer_cancel row, and none has
\* more than one row of either kind.
C27_OneTerminalEvent ==
    \A t \in DOMAIN tasks :
        CountRows(events, TaskRows(t, "timer_done"))
            + CountRows(events, TaskRows(t, "timer_cancel")) <= 1

\* ---------------------------------------------------------- digest: claims
\* No pass is running: the loop is between two passes (rows, today, tried and
\* failed are those of the last pass).
PassOver == dg.today # NoDate /\ dg.pc \in {"check", "sleep5", "sleep65"}

RowUid(k) == dg.rows[k].user_id

C10_FailureIsolated ==
    \A f \in dg.failed :
        /\ \/ dg.pc \in {"cursor"} /\ RowUid(dg.i) = f
           \/ users[f] = dg.today
        /\ PassOver => \A k \in DOMAIN dg.rows :
                dg.rows[k].last_digest_date # dg.today => RowUid(k) \in dg.tried

\* The send of the first actor of a pass failed and the pass ended: the later
\* actor was attempted, and both cursors are today.
C10_Witness ==
    /\ PassOver /\ Len(dg.rows) >= 2
    /\ RowUid(1) \in dg.failed /\ users[RowUid(1)] = dg.today
    /\ RowUid(2) \in dg.tried /\ users[RowUid(2)] = dg.today

\* No last_digest_date of the users table is changed by the step.
CursorsKept == \A u \in DOMAIN users : users'[u] = users[u]

\* C21: an iteration of the digest loop that reads an hour other than
\* DIGEST_HOUR goes to its 5 minute sleep and from there back to the check,
\* attempting no send and changing no last_digest_date; a pass is entered only
\* from a check that read DIGEST_HOUR, and sends and cursor updates happen only
\* inside a pass.
C21_OffHourOnlySleeps ==
    [][/\ (dg.pc = "check" /\ dg'.pc # "check" /\ TzHour # DIGEST_HOUR)
          => dg'.pc = "sleep5"
       /\ dg.pc = "sleep5" => dg'.pc \in {"sleep5", "check"}
       /\ dg.pc \in {"check", "sleep5"} => attempts' = attempts /\ CursorsKept
       /\ (dg'.pc = "fetch" /\ dg.pc # "fetch")
          => dg.pc = "check" /\ TzHour = DIGEST_HOUR
       /\ (dg'.pc \in {"stats", "ai", "cursor"})
          => dg.pc \in {"fetch", "stats", "ai", "cursor"}
       /\ (attempts' # attempts \/ ~CursorsKept) => dg.pc \in {"ai", "cursor"}]_vars

\* The loop sleeps its 5 minutes at an hour that is not the digest hour, after
\* time has passed, while registered actors have had no digest today.
C21_Witness ==
    /\ dg.pc = "sleep5" /\ now > 0 /\ TzHour # DIGEST_HOUR
    /\ DOMAIN users # {}
    /\ \A u \in DOMAIN users : users[u] # Today /\ attempts[<<u, Today>>] = 0

\* C25: when an exception ended a pass at one actor, during the digest hour
\* of the pass's date, every actor the pass had still to serve (its cursor was
\* not that date) has had a digest attempt on that date by the time the date
\* is over and the loop is between two passes.
C25_ErrorIsolated ==
    \A n \in DOMAIN errs :
        (/\ errs[n].inHour /\ Today > errs[n].date
         /\ dg.pc \in {"check", "sleep5", "sleep65", "sleep60"})
        => \A u \in errs[n].rest : attempts[<<u, errs[n].date>>] >= 1

\* C30: the pomodoro's start_timer for the break is called only when the
\* pomodoro's work session has expired (its prompt was sent) without a
\* timer_cancel, and no other session was started after it.
C30_BreakAfterWork ==
    [][\A c \in Calls :
          (calls[c].pc = "idle" /\ calls'[c].op = "start"
             /\ calls'[c].minutes = BREAK_MINUTES)
          => \E w \in TasksOf(WORK_MINUTES) :
                /\ tasks[w].pc = "done"
                /\ TaskRows(w, "timer_cancel") = {}
                /\ \A t \in DOMAIN tasks : t <= w]_vars

====
